---- MODULE Spec2Model ----
(***************************************************************************)
(* Model of create_map.py: the date parser (parse_year), the radius mapper *)
(* (compute_radius), the record preparer (prepare_dataframe), the lineage  *)
(* drawing of create_folium_map / add_parent_child_lines, and main().      *)
(*                                                                         *)
(* Text is modelled as a sequence of one-character strings, so the regular *)
(* expressions of parse_year and the numeric coercion of pandas are        *)
(* computed character by character.                                        *)
(***************************************************************************)
EXTENDS Integers, Sequences, FiniteSets, TLC

VARIABLES
  pc,         \* where the run is
  date_str,   \* the argument of a call of parse_year
  year,       \* the argument of a call of compute_radius
  ret,        \* the outcome of that call
  raw,        \* main: the rows load_sheet_to_df returned
  df,         \* main: the rows prepare_dataframe returned
  center,     \* create_folium_map: the centre of the map
  coords,     \* create_folium_map: the lookup node_id -> coordinates
  elements,   \* create_folium_map: the lines and markers added, in order
  stdout,     \* what the run printed
  exit_code,  \* <<status>> once the process has exited, <<>> while it runs
  saved       \* whether docs/index.html has been written

call_vars == <<date_str, year, ret>>

main_vars == <<raw, df, center, coords, elements, stdout, exit_code, saved>>

vars == <<pc, date_str, year, ret, raw, df, center, coords, elements, stdout,
          exit_code, saved>>

(***************************************************************************)
(* Bounds of the model.                                                    *)
(***************************************************************************)
\* longest run of digits in a generated date text
MaxDigits == 5
\* longest run of blanks between the parts of a generated date text
MaxWs == 1
\* compute_radius is applied to every year in -YearSpan..YearSpan
YearSpan == 9000
\* most data rows of a loaded worksheet
MaxRows == 3

(***************************************************************************)
(* Characters and text.                                                    *)
(***************************************************************************)
None == "None"
ValueError == "ValueError"

DigitChars == {"0", "1", "2", "3", "4", "5", "6", "7", "8", "9"}

\* the ASCII members of the class \s (and of what str.strip removes)
SpaceChars == {" ", "\t", "\n", "\r", "\f"}

IsDigit(c) == c \in DigitChars

IsSpace(c) == c \in SpaceChars

DigitVal(c) ==
  CASE c = "0" -> 0 [] c = "1" -> 1 [] c = "2" -> 2 [] c = "3" -> 3
    [] c = "4" -> 4 [] c = "5" -> 5 [] c = "6" -> 6 [] c = "7" -> 7
    [] c = "8" -> 8 [] c = "9" -> 9

\* the outcome of a call: a returned value, or a raised exception
Return(v) == [exc |-> None, value |-> v]

Raise(e) == [exc |-> e, value |-> 0]

RECURSIVE Pow10(_)
Pow10(n) == IF n = 0 THEN 1 ELSE 10 * Pow10(n - 1)

RECURSIVE DecimalValue(_)
DecimalValue(s) ==
  IF s = <<>> THEN 0
  ELSE 10 * DecimalValue(SubSeq(s, 1, Len(s) - 1)) + DigitVal(s[Len(s)])

\* int(s) on text: the decimal value of a non-empty run of digits, and
\* ValueError on anything else
int_(s) ==
  IF s = <<>> \/ \E i \in 1..Len(s) : ~IsDigit(s[i]) THEN Raise(ValueError)
  ELSE Return(DecimalValue(s))

RECURSIVE lstrip(_)
lstrip(s) == IF s # <<>> /\ IsSpace(s[1]) THEN lstrip(Tail(s)) ELSE s

RECURSIVE rstrip(_)
rstrip(s) ==
  IF s # <<>> /\ IsSpace(s[Len(s)]) THEN rstrip(SubSeq(s, 1, Len(s) - 1)) ELSE s

\* str.strip()
strip(s) == rstrip(lstrip(s))

(***************************************************************************)
(* re.match: the three patterns of parse_year.  A match object is a record *)
(* [ok, g1, g2]; ok = FALSE stands for None.  Digits, blanks and letters   *)
(* are disjoint classes, so the greedy quantifiers \d+, \s* and \s+ never  *)
(* give a character back: each takes its whole run.                        *)
(***************************************************************************)
RECURSIVE SpanEnd(_, _, _)
\* the index after the longest run of characters of Class starting at s[i]
SpanEnd(s, i, Class) ==
  IF i <= Len(s) /\ s[i] \in Class THEN SpanEnd(s, i + 1, Class) ELSE i

\* $ without re.MULTILINE: at the end of the text, or before a final newline
AtDollar(s, i) == i = Len(s) + 1 \/ (i = Len(s) /\ s[i] = "\n")

\* does the literal text lit occur in s at index i
LitAt(s, i, lit) ==
  i + Len(lit) - 1 <= Len(s) /\ SubSeq(s, i, i + Len(lit) - 1) = lit

NoMatch == [ok |-> FALSE, g1 |-> <<>>, g2 |-> <<>>]

BCE == <<"B", "C", "E">>
CE == <<"C", "E">>
century == <<"c", "e", "n", "t", "u", "r", "y">>
OrdinalSuffixes == {<<"s", "t">>, <<"n", "d">>, <<"r", "d">>, <<"t", "h">>}

\* (BCE|CE)$ at index i: the alternatives are tried in this order
EraAt(s, i) ==
  IF LitAt(s, i, BCE) /\ AtDollar(s, i + Len(BCE)) THEN BCE
  ELSE IF LitAt(s, i, CE) /\ AtDollar(s, i + Len(CE)) THEN CE
  ELSE <<>>

\* re.match(r"(\d+)\s*(BCE|CE)$", s)
match_year_era(s) ==
  LET d == SpanEnd(s, 1, DigitChars)
      w == SpanEnd(s, d, SpaceChars)
  IN  IF d > 1 /\ EraAt(s, w) # <<>>
      THEN [ok |-> TRUE, g1 |-> SubSeq(s, 1, d - 1), g2 |-> EraAt(s, w)]
      ELSE NoMatch

\* re.match(r"(\d+)(?:st|nd|rd|th)\s+century\s*(BCE|CE)$", s)
match_century_era(s) ==
  LET d  == SpanEnd(s, 1, DigitChars)
      w1 == SpanEnd(s, d + 2, SpaceChars)
      w2 == SpanEnd(s, w1 + Len(century), SpaceChars)
  IN  IF /\ d > 1
         /\ \E suf \in OrdinalSuffixes : LitAt(s, d, suf)
         /\ w1 > d + 2
         /\ LitAt(s, w1, century)
         /\ EraAt(s, w2) # <<>>
      THEN [ok |-> TRUE, g1 |-> SubSeq(s, 1, d - 1), g2 |-> EraAt(s, w2)]
      ELSE NoMatch

BareMin == 3
BareMax == 4

\* match_bare with a fault: the pattern without its $
match_bare_unanchored(s) ==
  LET d == SpanEnd(s, 1, DigitChars)
  IN  IF d - 1 >= BareMin
      THEN [ok |-> TRUE,
            g1 |-> SubSeq(s, 1, IF d - 1 > BareMax THEN BareMax ELSE d - 1),
            g2 |-> <<>>]
      ELSE NoMatch

\* re.match(r"(\d{3,4})$", s): the longest count in 3..4 that is followed by $
match_bare(s) ==
  LET d    == SpanEnd(s, 1, DigitChars)
      lens == {n \in BareMin..BareMax : n <= d - 1 /\ AtDollar(s, n + 1)}
  IN  IF lens # {}
      THEN [ok |-> TRUE,
            g1 |-> SubSeq(s, 1, CHOOSE n \in lens : \A k \in lens : k <= n),
            g2 |-> <<>>]
      ELSE NoMatch

\* CenturyMid with a fault: the start of the century instead of its midpoint
CenturyStart(c) == c * 100 - 100

\* the century form: mid = century * 100 - 50
CenturyMid(c) == c * 100 - 50

\* the sign given by the era marker
Signed(n, era) == IF era = BCE THEN -n ELSE n

\* parse_year(date_str)
parse_year(text) ==
  LET s  == strip(text)
      m  == match_year_era(s)
      m2 == match_century_era(s)
      m3 == match_bare(s)
  IN  IF m.ok THEN
        IF int_(m.g1).exc # None THEN int_(m.g1)
        ELSE Return(Signed(int_(m.g1).value, m.g2))
      ELSE IF m2.ok THEN
        IF int_(m2.g1).exc # None THEN int_(m2.g1)
        ELSE Return(Signed(CenturyMid(int_(m2.g1).value), m2.g2))
      ELSE IF m3.ok THEN int_(m3.g1)
      ELSE Return(0)

(***************************************************************************)
(* The date texts parse_year is applied to: every concatenation            *)
(*   lead digits suffix blanks word blanks era tail                        *)
(* of optional parts, which gives the three recognised forms and their     *)
(* malformed neighbours, and the examples of the documentation.            *)
(***************************************************************************)
GenDigits == {"0", "3"}

RECURSIVE SeqsUpTo(_, _)
\* the sequences over S of length at most n
SeqsUpTo(S, n) ==
  IF n = 0 THEN {<<>>}
  ELSE LET shorter == SeqsUpTo(S, n - 1)
       IN  shorter \cup {Append(q, c) : q \in shorter, c \in S}

\* what surrounds the text: nothing, blanks to be stripped, or trailing text
GenWrap == {<<<<>>, <<>>>>, <<<<" ">>, <<"\n">>>>, <<<<>>, <<"x">>>>}
GenNumber == SeqsUpTo(GenDigits, MaxDigits)
GenSuffix == OrdinalSuffixes \cup {<<>>}
GenBlank == SeqsUpTo({" "}, MaxWs)
GenWord == {<<>>, century}
GenEra == {<<>>, BCE, CE}

ExampleDates ==
  { <<"1", "6", "t", "h", " ">> \o century \o <<" ">> \o CE,
    <<"3", "r", "d", " ">> \o century \o <<" ">> \o BCE,
    <<"2", "1", "s", "t", "\t">> \o century \o CE,
    <<"2", "n", "d", " ">> \o century \o <<" ">> \o BCE,
    <<"1", "8", "4", "0", " ">> \o CE,
    <<"3", "5", "0", "0", " ">> \o BCE,
    <<"1", "8", "4", "0", " ">> \o CE \o <<" ", "a", "p", "p", "r", "o", "x">>,
    <<"c", ".", " ", "1", "8", "4", "0", " ">> \o CE,
    <<"1", "6", "T", "H", " ">> \o century \o <<" ">> \o CE,
    <<"1", "7", "7", "6">>,
    <<"g", "a", "r", "b", "a", "g", "e">>,
    <<"7", "9", "\n", "\t">> \o CE \o <<"\r", "\n">> }

DateInputs ==
  ExampleDates \cup
  { lt[1] \o n \o s \o b1 \o w \o b2 \o e \o lt[2] :
      lt \in GenWrap, n \in GenNumber, s \in GenSuffix, b1 \in GenBlank,
      w \in GenWord, b2 \in GenBlank, e \in GenEra }

(***************************************************************************)
(* parse_year applied to one date text.                                    *)
(***************************************************************************)
Idle == [exc |-> None, value |-> 0]

MainNotStarted ==
  /\ raw = <<>>
  /\ df = <<>>
  /\ center = <<>>
  /\ coords = <<>>
  /\ elements = <<>>
  /\ stdout = <<>>
  /\ exit_code = <<>>
  /\ saved = FALSE

InitParse ==
  /\ pc = "parse_year"
  /\ date_str \in DateInputs
  /\ year = 0
  /\ ret = Idle
  /\ MainNotStarted

CallParseYear ==
  /\ pc = "parse_year"
  /\ ret' = parse_year(date_str)
  /\ pc' = "returned"
  /\ UNCHANGED <<date_str, year, main_vars>>

NextParse == CallParseYear

SpecParse == InitParse /\ [][NextParse]_vars

(***************************************************************************)
(* compute_radius.  The source computes in binary floating point; here m,  *)
(* b and r are the exact fractions over the common denominator m_den.  For *)
(* an integer year the exact r is either an integer (year + 5000 a         *)
(* multiple of 875, where the double result is the same integer, or        *)
(* 3.9999999999999996 at year 2000, which the clamp turns into 4) or at    *)
(* least 1/875 away from one, far more than the rounding error of the two  *)
(* double operations, so the truncated result is the same.                 *)
(***************************************************************************)
RadiusDefault == 5
RadiusMin == 4
RadiusMax == 12
DomainLo == -5000
DomainHi == 2000

\* m = (4 - 12) / (2000 - (-5000)), as the fraction m_num / m_den
m_num == RadiusMin - RadiusMax

m_den == DomainHi - DomainLo

\* b = 12 - m * -5000, as the fraction b_num / m_den
b_num == RadiusMax * m_den - m_num * DomainLo

\* r_num with a fault: the sign of the slope lost
r_num_rising(y) == -m_num * y + b_num

\* r = m * year + b, as the fraction r_num(year) / m_den
r_num(y) == m_num * y + b_num

\* min(12, r) and max(4, .), on fractions over den
min_(k, n, den) == IF n < k * den THEN n ELSE k * den

max_(k, n, den) == IF n > k * den THEN n ELSE k * den

\* int_trunc with a fault: rounding to the nearest integer
int_round(n, den) == IF n >= 0 THEN (2 * n + den) \div (2 * den)
                     ELSE -((2 * (-n) + den) \div (2 * den))

\* int(x): truncation toward zero of the fraction n / den
int_trunc(n, den) == IF n >= 0 THEN n \div den ELSE -((-n) \div den)

\* compute_radius(year)
compute_radius(y) ==
  IF y = 0 THEN RadiusDefault
  ELSE int_trunc(max_(RadiusMin, min_(RadiusMax, r_num(y), m_den), m_den), m_den)

(***************************************************************************)
(* compute_radius applied to one year.                                     *)
(***************************************************************************)
InitRadius ==
  /\ pc = "compute_radius"
  /\ year \in -YearSpan..YearSpan
  /\ date_str = <<>>
  /\ ret = Idle
  /\ MainNotStarted

CallComputeRadius ==
  /\ pc = "compute_radius"
  /\ ret' = Return(compute_radius(year))
  /\ pc' = "returned"
  /\ UNCHANGED <<date_str, year, main_vars>>

NextRadius == CallComputeRadius

SpecRadius == InitRadius /\ [][NextRadius]_vars

(***************************************************************************)
(* pandas: to_numeric(errors="coerce"), dropna and mean.  A cell of the    *)
(* worksheet is text; a coerced cell is the number n / 10^k, an infinity   *)
(* (n its sign) or NaN.  The texts read here are the plain decimal forms   *)
(* [sign] digits [. digits], inf and nan; exponents do not occur in the    *)
(* cells of the model.                                                     *)
(***************************************************************************)
Num(n, k) == [kind |-> "num", n |-> n, k |-> k]

Inf(sign) == [kind |-> "inf", n |-> sign, k |-> 0]

NaN == [kind |-> "nan", n |-> 0, k |-> 0]

inf_text == <<"i", "n", "f">>
nan_text == <<"n", "a", "n">>

\* the unsigned part of a numeric text
to_numeric_unsigned(s) ==
  LET d == SpanEnd(s, 1, DigitChars)
      f == SpanEnd(s, d + 1, DigitChars)
  IN  IF s = inf_text THEN Inf(1)
      ELSE IF s = nan_text THEN NaN
      ELSE IF d > 1 /\ d = Len(s) + 1 THEN Num(DecimalValue(s), 0)
      ELSE IF d <= Len(s) /\ s[d] = "." /\ f = Len(s) + 1 /\ Len(s) > 1
        THEN Num(DecimalValue(SubSeq(s, 1, d - 1) \o SubSeq(s, d + 1, Len(s))),
                 Len(s) - d)
      ELSE NaN

negated(v) == [v EXCEPT !.n = -v.n]

\* pd.to_numeric(cell, errors="coerce") on one cell
to_numeric(cell) ==
  LET s == strip(cell)
  IN  IF s # <<>> /\ s[1] = "-" THEN negated(to_numeric_unsigned(Tail(s)))
      ELSE IF s # <<>> /\ s[1] = "+" THEN to_numeric_unsigned(Tail(s))
      ELSE to_numeric_unsigned(s)

isna(v) == v.kind = "nan"

\* dropna with a fault: the result of dropna is not assigned
dropna_not_assigned(rows) == rows

RECURSIVE dropna_latitude_only(_)
\* dropna with a fault: subset=["latitude"]
dropna_latitude_only(rows) ==
  IF rows = <<>> THEN <<>>
  ELSE IF isna(Head(rows).latitude) THEN dropna_latitude_only(Tail(rows))
  ELSE <<Head(rows)>> \o dropna_latitude_only(Tail(rows))

RECURSIVE dropna(_)
\* df.dropna(subset=["latitude", "longitude"]).reset_index(drop=True)
dropna(rows) ==
  IF rows = <<>> THEN <<>>
  ELSE IF isna(Head(rows).latitude) \/ isna(Head(rows).longitude)
    THEN dropna(Tail(rows))
  ELSE <<Head(rows)>> \o dropna(Tail(rows))

Max(a, b) == IF a >= b THEN a ELSE b

RECURSIVE MaxScale(_)
MaxScale(col) == IF col = <<>> THEN 0 ELSE Max(Head(col).k, MaxScale(Tail(col)))

RECURSIVE SumAtScale(_, _)
SumAtScale(col, k) ==
  IF col = <<>> THEN 0
  ELSE Head(col).n * Pow10(k - Head(col).k) + SumAtScale(Tail(col), k)

\* the mean of a column as [kind, num, den]: the number num / den, an
\* infinity (num its sign) or NaN
MeanNaN == [kind |-> "nan", num |-> 0, den |-> 1]

\* the mean of a column that is not empty
mean_of_values(col) ==
  LET pos == \E i \in 1..Len(col) : col[i].kind = "inf" /\ col[i].n > 0
      neg == \E i \in 1..Len(col) : col[i].kind = "inf" /\ col[i].n < 0
  IN  IF pos /\ neg THEN MeanNaN
      ELSE IF pos THEN [kind |-> "inf", num |-> 1, den |-> 1]
      ELSE IF neg THEN [kind |-> "inf", num |-> -1, den |-> 1]
      ELSE [kind |-> "num", num |-> SumAtScale(col, MaxScale(col)),
            den |-> Pow10(MaxScale(col)) * Len(col)]

\* mean with a fault: 0 for an empty column
mean_empty_is_zero(col) ==
  IF col = <<>> THEN [kind |-> "num", num |-> 0, den |-> 1]
  ELSE mean_of_values(col)

\* Series.mean(): NaN for an empty column and for one with both infinities
mean(col) == IF col = <<>> THEN MeanNaN ELSE mean_of_values(col)

Column(rows, name) == [i \in 1..Len(rows) |-> rows[i][name]]

(***************************************************************************)
(* The worksheet.  load_sheet_to_df returns the data rows as text cells;   *)
(* the columns type, description and citation are only copied into the     *)
(* popup of a marker and are left out.                                     *)
(***************************************************************************)
Row(id, pid, lat, lon, date, grp) ==
  [node_id |-> id, parent_id |-> pid, latitude |-> lat, longitude |-> lon,
   date |-> date, group |-> grp]

SampleRows ==
  {
    \* an origin
    Row("A", "", <<"1", "0">>, <<"2", "0">>,
        <<"3", "5", "0", "0", " ", "B", "C", "E">>, "Grain"),
    \* the same id again, at another place
    Row("A", "", <<"3", "0", ".", "5">>, <<"-", "4", "0">>,
        <<"1", "8", "4", "0", " ", "C", "E">>, "Grape"),
    \* a child of A
    Row("B", "A", <<"5", "0">>, <<"6", "0">>,
        <<"1", "6", "t", "h", " ", "c", "e", "n", "t", "u", "r", "y", " ", "C", "E">>, "Grain"),
    \* a child of A in a group without a colour
    Row("B", "A", <<"-", "7", ".", "2", "5">>, <<"6", "0">>,
        <<"g", "a", "r", "b", "a", "g", "e">>, "Agave"),
    \* a child of an id no row has
    Row("C", "Z", <<"-", "1", "0">>, <<"-", "2", "0">>,
        <<>>, "Sugar"),
    \* a child of A without an id
    Row("", "A", <<"7", "0">>, <<"8", "0">>,
        <<"3", "r", "d", " ", "c", "e", "n", "t", "u", "r", "y", " ", "B", "C", "E">>, "Cactus"),
    \* no id, no parent, no group
    Row("", "", <<"0">>, <<"0">>,
        <<"1", "7", "7", "6">>, ""),
    \* a latitude that is no number
    Row("A", "B", <<"a", "b", "c">>, <<"2", "0">>,
        <<"1", "2", " ", "C", "E">>, "Grain"),
    \* an empty longitude
    Row("D", "A", <<"1", "0">>, <<>>,
        <<"0", " ", "C", "E">>, "Grape"),
    \* numbers outside the ranges of a latitude and a longitude
    Row("E", "", <<"9", "1">>, <<"1", "8", "1">>,
        <<"0", "t", "h", " ", "c", "e", "n", "t", "u", "r", "y", " ", "C", "E">>, "Sugar"),
    \* an infinite latitude
    Row("F", "E", <<"i", "n", "f">>, <<"5">>,
        <<"1", "2", "3", "4", "5">>, "Cactus"),
    \* the opposite infinite latitude
    Row("G", "F", <<"-", "i", "n", "f">>, <<"5">>,
        <<" ", "3", "0", " ", "B", "C", "E", " ">>, "Grain"),
    \* the text nan
    Row("H", "", <<"n", "a", "n">>, <<"5">>,
        <<"7", "t", "h", " ", "c", "e", "n", "t", "u", "r", "y", " ", "B", "C", "E">>, "Grape")
  }

RECURSIVE RowSeqs(_)
\* the worksheets of 1..n data rows
RowSeqs(n) ==
  IF n = 0 THEN {}
  ELSE IF n = 1 THEN {<<r>> : r \in SampleRows}
  ELSE RowSeqs(n - 1) \cup
       {Append(q, r) : q \in {x \in RowSeqs(n - 1) : Len(x) = n - 1},
                       r \in SampleRows}

(***************************************************************************)
(* prepare_dataframe.                                                      *)
(***************************************************************************)
\* the two to_numeric assignments
coerce(rows) ==
  [i \in 1..Len(rows) |->
     [rows[i] EXCEPT !.latitude = to_numeric(@), !.longitude = to_numeric(@)]]

\* df["date"].apply(parse_year) raises what parse_year raises
apply_raises(rows) ==
  \E i \in 1..Len(rows) : parse_year(rows[i].date).exc # None

\* the columns year and radius
with_year_radius(rows) ==
  [i \in 1..Len(rows) |->
     [node_id |-> rows[i].node_id, parent_id |-> rows[i].parent_id,
      latitude |-> rows[i].latitude, longitude |-> rows[i].longitude,
      date |-> rows[i].date, group |-> rows[i].group,
      year |-> parse_year(rows[i].date).value,
      radius |-> compute_radius(parse_year(rows[i].date).value)]]

\* prepare_dataframe(df)
prepare_dataframe(rows) ==
  LET kept == dropna(coerce(rows))
  IN  IF apply_raises(kept) THEN Raise(ValueError)
      ELSE Return(with_year_radius(kept))

(***************************************************************************)
(* create_folium_map and add_parent_child_lines.  Of the map only what the *)
(* records decide is kept: its centre, and the PolyLine and CircleMarker   *)
(* elements with the feature group they were added to.  Tile layers, the   *)
(* layer control, the sidebar and its script are the same for every input. *)
(***************************************************************************)
KnownGroups == {"Grain", "Grape", "Sugar", "Cactus"}

group_color_map ==
  [g \in KnownGroups |->
     CASE g = "Grain" -> "#f9d81b" [] g = "Grape" -> "#75147c"
       [] g = "Sugar" -> "#FFFFFF" [] g = "Cactus" -> "#367c21"]

FallbackColor == "gray"

LatLon(row) == <<row.latitude, row.longitude>>

\* put with a fault: an existing key keeps its value
put_if_absent(d, k, v) ==
  [x \in DOMAIN d \cup {k} |-> IF x \in DOMAIN d THEN d[x] ELSE v]

\* d[k] = v on a dict
put(d, k, v) == [x \in DOMAIN d \cup {k} |-> IF x = k THEN v ELSE d[x]]

RECURSIVE build_coords(_, _)
\* {r["node_id"]: (r["latitude"], r["longitude"]) for r in rows if r["node_id"]}
build_coords(rows, d) ==
  IF rows = <<>> THEN d
  ELSE IF Head(rows).node_id # ""
    THEN build_coords(Tail(rows), put(d, Head(rows).node_id, LatLon(Head(rows))))
  ELSE build_coords(Tail(rows), d)

PolyLine(fg, from, to, color) ==
  [type |-> "PolyLine", fg |-> fg, locations |-> <<from, to>>, color |-> color,
   radius |-> 0, popup |-> ""]

CircleMarker(fg, at, r, color, id) ==
  [type |-> "CircleMarker", fg |-> fg, locations |-> <<at>>, color |-> color,
   radius |-> r, popup |-> id]

\* one turn of the loop of step 5 of create_folium_map
draw_row(row, d) ==
  IF row.group \notin DOMAIN group_color_map THEN <<>>
  ELSE (IF row.parent_id \in DOMAIN d
        THEN <<PolyLine(row.group, d[row.parent_id], LatLon(row),
                        group_color_map[row.group])>>
        ELSE <<>>)
       \o <<CircleMarker(row.group, LatLon(row), row.radius,
                         group_color_map[row.group], row.node_id)>>

RECURSIVE draw_rows(_, _)
draw_rows(rows, d) ==
  IF rows = <<>> THEN <<>>
  ELSE draw_row(Head(rows), d) \o draw_rows(Tail(rows), d)

\* folium.Map(location=...) refuses a NaN coordinate with a ValueError
validate_location(c) == c[1].kind # "nan" /\ c[2].kind # "nan"

\* create_folium_map(df)
create_folium_map(rows) ==
  LET c == <<mean(Column(rows, "latitude")), mean(Column(rows, "longitude"))>>
      d == build_coords(rows, <<>>)
  IN  IF ~validate_location(c) THEN Raise(ValueError)
      ELSE Return([center |-> c, coords |-> d, elements |-> draw_rows(rows, d)])

RECURSIVE lines_of(_, _)
lines_of(rows, d) ==
  IF rows = <<>> THEN <<>>
  ELSE (IF Head(rows).parent_id \in DOMAIN d
        THEN <<PolyLine("", d[Head(rows).parent_id], LatLon(Head(rows)),
                        IF Head(rows).group \in DOMAIN group_color_map
                        THEN group_color_map[Head(rows).group]
                        ELSE FallbackColor)>>
        ELSE <<>>)
       \o lines_of(Tail(rows), d)

\* add_parent_child_lines(m, df, color_map): the lines it adds to the map.
\* No function of the module calls it.
add_parent_child_lines(rows) == lines_of(rows, build_coords(rows, <<>>))

(***************************************************************************)
(* main().                                                                 *)
(***************************************************************************)
Printed(msg, n) == [msg |-> msg, n |-> n]

Init ==
  /\ pc = "main"
  /\ date_str = <<>>
  /\ year = 0
  /\ ret = Idle
  /\ MainNotStarted

\* sys.exit(1), or an exception nothing catches
Exit1 ==
  /\ pc' = "exited"
  /\ exit_code' = <<1>>

LoadFailures ==
  { "ERROR: Could not find the service account file",
    "ERROR: Could not open sheet",
    "ERROR: Worksheet not found",
    "ERROR: No data rows found in worksheet." }

\* load_sheet_to_df fails: it prints the error and exits with status 1
LoadSheetFails ==
  /\ pc = "main"
  /\ \E e \in LoadFailures : stdout' = Append(stdout, Printed(e, 0))
  /\ Exit1
  /\ UNCHANGED <<call_vars, raw, df, center, coords, elements, saved>>

\* load_sheet_to_df returns the data rows, at least one
LoadSheet ==
  /\ pc = "main"
  /\ \E rows \in RowSeqs(MaxRows) : raw' = rows
  /\ stdout' = Append(stdout, Printed("Loaded", Len(raw')))
  /\ pc' = "loaded"
  /\ UNCHANGED <<call_vars, df, center, coords, elements, exit_code, saved>>

\* df = prepare_dataframe(df) and the second print
Prepare ==
  /\ pc = "loaded"
  /\ LET r == prepare_dataframe(raw)
     IN  IF r.exc # None
         THEN Exit1 /\ UNCHANGED <<df, stdout>>
         ELSE /\ df' = r.value
              /\ stdout' = Append(stdout, Printed("Prepared", Len(r.value)))
              /\ pc' = "prepared"
              /\ UNCHANGED exit_code
  /\ UNCHANGED <<call_vars, raw, center, coords, elements, saved>>

\* fmap = create_folium_map(df)
CreateMap ==
  /\ pc = "prepared"
  /\ LET r == create_folium_map(df)
     IN  IF r.exc # None
         THEN Exit1 /\ UNCHANGED <<center, coords, elements>>
         ELSE /\ center' = r.value.center
              /\ coords' = r.value.coords
              /\ elements' = r.value.elements
              /\ pc' = "mapped"
              /\ UNCHANGED exit_code
  /\ UNCHANGED <<call_vars, raw, df, stdout, saved>>

\* os.makedirs, fmap.save(output_file), the last print, and the return
Save ==
  /\ pc = "mapped"
  /\ saved' = TRUE
  /\ stdout' = Append(stdout, Printed("Map saved", 0))
  /\ pc' = "done"
  /\ exit_code' = <<0>>
  /\ UNCHANGED <<call_vars, raw, df, center, coords, elements>>

Next == LoadSheetFails \/ LoadSheet \/ Prepare \/ CreateMap \/ Save

Spec == Init /\ [][Next]_vars

(***************************************************************************)
(* The forms of a date text, stated by splitting the text at two or more   *)
(* indexes; used to state the properties of parse_year.                    *)
(***************************************************************************)
AllIn(s, Class) == \A k \in 1..Len(s) : s[k] \in Class

\* the text without its leading and trailing blanks
Trimmed(x) ==
  LET inner == {k \in 1..Len(x) : x[k] \notin SpaceChars}
  IN  IF inner = {} THEN <<>>
      ELSE SubSeq(x, CHOOSE a \in inner : \A k \in inner : a <= k,
                     CHOOSE b \in inner : \A k \in inner : k <= b)

\* the number a run of digits denotes
RECURSIVE NumberOf(_)
NumberOf(d) ==
  IF d = <<>> THEN 0
  ELSE DigitVal(Head(d)) * Pow10(Len(d) - 1) + NumberOf(Tail(d))

Eras == {BCE, CE}

\* s[a..b], cut at the end of s
Slice(s, a, b) == SubSeq(s, a, IF b > Len(s) THEN Len(s) ELSE b)

\* the indexes i such that s[1..i] is a non-empty run of digits
DigitPrefixes(s) == {i \in 1..Len(s) : AllIn(Slice(s, 1, i), DigitChars)}

\* the indexes j >= i such that s[i+1..j] is a (possibly empty) run of blanks
BlankRuns(s, i) == {j \in i..Len(s) : AllIn(Slice(s, i + 1, j), SpaceChars)}

\* <<digits, era>> for every reading of s as  digits blank* era
YearFormReadings(s) ==
  UNION { { <<Slice(s, 1, i), Slice(s, j + 1, Len(s))>> :
              j \in {k \in BlankRuns(s, i) : Slice(s, k + 1, Len(s)) \in Eras} } :
          i \in DigitPrefixes(s) }

\* <<digits, era>> for every reading of s as
\*   digits suffix blank+ century blank* era
CenturyFormReadings(s) ==
  UNION { UNION { { <<Slice(s, 1, i), Slice(s, k + 1, Len(s))>> :
                      k \in {e \in BlankRuns(s, j + Len(century)) :
                               Slice(s, e + 1, Len(s)) \in Eras} } :
                  j \in {w \in BlankRuns(s, i + 2) :
                           /\ w > i + 2
                           /\ Slice(s, w + 1, w + Len(century)) = century} } :
          i \in {d \in DigitPrefixes(s) :
                   Slice(s, d + 1, d + 2) \in OrdinalSuffixes} }

\* s is a bare number of 3 or 4 digits
IsBareYear(s) == Len(s) \in {3, 4} /\ AllIn(s, DigitChars)

ParseReturned == pc = "returned"

\* C1: for a trimmed input "<digits> <era>" parse_year returns the number,
\* negated for BCE, and for "<digits><st|nd|rd|th> century <era>" it returns
\* digits * 100 - 50, negated for BCE.
C1_EraFormsExact ==
  ParseReturned =>
    LET s == Trimmed(date_str)
    IN  /\ \A r \in YearFormReadings(s) :
             ret = Return(IF r[2] = BCE THEN -NumberOf(r[1]) ELSE NumberOf(r[1]))
        /\ \A r \in CenturyFormReadings(s) :
             ret = Return(IF r[2] = BCE THEN -(NumberOf(r[1]) * 100 - 50)
                          ELSE NumberOf(r[1]) * 100 - 50)

\* a century form with blanks around it has been parsed, and a year form too
C1_Witness ==
  /\ ParseReturned
  /\ date_str = <<"3", "r", "d", " ">> \o century \o <<" ">> \o BCE
  /\ ret = Return(-250)

\* C2: parse_year never raises; a trimmed bare number of 3 or 4 digits is
\* returned as it is; a trimmed input of none of the three forms gives 0.
C2_TotalWithSentinel ==
  ParseReturned =>
    LET s == Trimmed(date_str)
    IN  /\ ret.exc = None
        /\ IsBareYear(s) => ret.value = NumberOf(s)
        /\ (/\ YearFormReadings(s) = {}
            /\ CenturyFormReadings(s) = {}
            /\ ~IsBareYear(s)) => ret.value = 0

\* a recognised form followed by extra text has been answered with 0
C2_Witness ==
  /\ ParseReturned
  /\ date_str = <<"1", "8", "4", "0", " ">> \o CE
                  \o <<" ", "a", "p", "p", "r", "o", "x">>
  /\ ret = Return(0)

\* C10: a recognised era-marked date gives a strictly negative year for BCE
\* and a strictly positive year for CE, never 0.
C10_SignFollowsEra ==
  ParseReturned =>
    LET s == Trimmed(date_str)
    IN  \A r \in YearFormReadings(s) \cup CenturyFormReadings(s) :
          IF r[2] = BCE THEN ret.value < 0 ELSE ret.value > 0

(***************************************************************************)
(* Properties of compute_radius.                                           *)
(***************************************************************************)
RadiusReturned == pc = "returned"

\* 7000 times the linear value 12 - 8 * (y + 5000) / 7000
LinearTimes7000(y) == 12 * 7000 - 8 * (y + 5000)

\* C3: compute_radius(0) = 5; any other year gives the linear value clamped
\* to [4, 12] and truncated toward zero: 12 up to -5000, 4 from 2000 on,
\* and always an integer in 4..12.
C3_RadiusClampedLinear ==
  RadiusReturned =>
    /\ ret.exc = None
    /\ year = 0 => ret.value = 5
    /\ year # 0 =>
         LET v == LinearTimes7000(year)
             clamped == IF v > 12 * 7000 THEN 12 * 7000
                        ELSE IF v < 4 * 7000 THEN 4 * 7000 ELSE v
         IN  /\ ret.value * 7000 <= clamped
             /\ clamped < (ret.value + 1) * 7000
             /\ year <= -5000 => ret.value = 12
             /\ year >= 2000 => ret.value = 4
    /\ ret.value \in 4..12

\* a year below the domain has been clamped to the largest radius
C3_Witness == RadiusReturned /\ year = -8000 /\ ret = Return(12)

\* C4 as stated: over the domain, the year 0 included, a later year never
\* has a larger radius.
C4_MonotoneWithZero ==
  (RadiusReturned /\ DomainLo <= year /\ year <= DomainHi) =>
    \A y2 \in year..DomainHi : compute_radius(y2) <= ret.value

\* C4 as amended: over the domain, a year other than 0 never has a smaller
\* radius than any later year (the later year may be 0).
C4_MonotoneFromNonzero ==
  (RadiusReturned /\ DomainLo <= year /\ year <= DomainHi /\ year # 0) =>
    \A y2 \in year..DomainHi : compute_radius(y2) <= ret.value

\* an early year has a strictly larger radius than the end of the domain
C4_Witness ==
  /\ RadiusReturned
  /\ year = DomainLo
  /\ ret.value > compute_radius(DomainHi)
  /\ ret.value >= compute_radius(0)

(***************************************************************************)
(* Properties of prepare_dataframe, create_folium_map and main.            *)
(***************************************************************************)
\* the second print of main has happened: prepare_dataframe has returned
PreparedDone == \E k \in 1..Len(stdout) : stdout[k].msg = "Prepared"

\* create_folium_map has returned the map
MapBuilt == pc \in {"mapped", "done"}

\* a cell reads as a number: [sign] digits [. digits] with a digit, or an
\* infinity; the text nan reads as NaN, which is no number
IsDecimalText(u) ==
  \E i \in 0..Len(u) :
    /\ AllIn(Slice(u, 1, i), DigitChars)
    /\ \/ i = Len(u) /\ i > 0
       \/ /\ i < Len(u)
          /\ u[i + 1] = "."
          /\ AllIn(Slice(u, i + 2, Len(u)), DigitChars)
          /\ Len(u) > 1

IsNumberText(cell) ==
  LET t == Trimmed(cell)
      u == IF t # <<>> /\ t[1] \in {"-", "+"} THEN Tail(t) ELSE t
  IN  u = inf_text \/ IsDecimalText(u)

BothNumbers(r) == IsNumberText(r.latitude) /\ IsNumberText(r.longitude)

\* the coerced coordinate v is a finite number of absolute value <= bound
WithinRange(v, bound) ==
  /\ v.kind = "num"
  /\ -bound * Pow10(v.k) <= v.n
  /\ v.n <= bound * Pow10(v.k)

\* C6: prepare_dataframe keeps exactly the rows whose latitude and longitude
\* both read as numbers, in input order, gives each year = parse_year(date)
\* and radius = compute_radius(year), and the two printed counts differ by
\* the number of rows dropped.
C6_PrepareKeepsNumericRowsInOrder ==
  PreparedDone =>
    LET keep == SelectSeq(raw, BothNumbers)
    IN  /\ Len(df) = Len(keep)
        /\ \A k \in 1..Len(keep) :
             /\ df[k].node_id = keep[k].node_id
             /\ df[k].parent_id = keep[k].parent_id
             /\ df[k].date = keep[k].date
             /\ df[k].group = keep[k].group
             /\ df[k].latitude = to_numeric(keep[k].latitude)
             /\ df[k].longitude = to_numeric(keep[k].longitude)
             /\ df[k].year = parse_year(keep[k].date).value
             /\ df[k].radius = compute_radius(df[k].year)
        /\ stdout[1] = Printed("Loaded", Len(raw))
        /\ stdout[2] = Printed("Prepared", Len(df))
        /\ stdout[1].n - stdout[2].n =
             Cardinality({i \in 1..Len(raw) : ~BothNumbers(raw[i])})

\* the middle row of three was dropped and the other two kept their order
C6_Witness ==
  /\ PreparedDone
  /\ Len(raw) = 3
  /\ ~IsNumberText(raw[2].longitude)
  /\ Len(df) = 2
  /\ <<df[1].node_id, df[2].node_id>> = <<"B", "A">>
  /\ <<raw[1].node_id, raw[3].node_id>> = <<"B", "A">>
  /\ df[1].year = 1550

\* C7 as stated: every retained record has a finite latitude in [-90, 90]
\* and a finite longitude in [-180, 180].
C7_RetainedWithinRange ==
  PreparedDone =>
    \A k \in 1..Len(df) :
      WithinRange(df[k].latitude, 90) /\ WithinRange(df[k].longitude, 180)

\* C7 as amended: every retained record has a latitude and a longitude that
\* are numbers (not NaN), and every row whose two coordinates read as
\* numbers is retained, also when they are infinite or outside the ranges.
C7_RetainedAreNumbers ==
  PreparedDone =>
    /\ \A k \in 1..Len(df) :
         df[k].latitude.kind # "nan" /\ df[k].longitude.kind # "nan"
    /\ \A i \in 1..Len(raw) :
         BothNumbers(raw[i]) =>
           \E k \in 1..Len(df) :
             /\ df[k].latitude = to_numeric(raw[i].latitude)
             /\ df[k].longitude = to_numeric(raw[i].longitude)
             /\ df[k].node_id = raw[i].node_id

\* a row with latitude 91 and longitude 181 has been retained
C7_Witness ==
  /\ PreparedDone
  /\ \E k \in 1..Len(df) :
       /\ df[k].latitude = Num(91, 0)
       /\ df[k].longitude = Num(181, 0)
       /\ ~WithinRange(df[k].latitude, 90)

\* C8: when rows were loaded and none retained, the run ends with exit
\* status 1 and docs/index.html is not written; exit status 0 comes only
\* after a row was retained and the file saved.
C8_NoRowsNoOutput ==
  /\ (PreparedDone /\ Len(df) = 0) =>
       /\ pc \in {"prepared", "exited"}
       /\ ~saved
       /\ exit_code # <<0>>
       /\ create_folium_map(df).exc = ValueError
  /\ pc = "exited" => (exit_code = <<1>> /\ ~saved)
  /\ saved => Len(df) >= 1
  /\ exit_code = <<0>> => (saved /\ Len(df) >= 1 /\ pc = "done")

\* rows were loaded, all were dropped, and the run has failed
C8_Witness ==
  /\ pc = "exited"
  /\ Len(raw) >= 1
  /\ stdout[Len(stdout)] = Printed("Prepared", 0)
  /\ df = <<>>
  /\ exit_code = <<1>>
  /\ ~saved

IsPolyLine(e) == e.type = "PolyLine"

\* the connections of the map, in the order they were added
Lines == SelectSeq(elements, IsPolyLine)

\* record i names a parent, and a retained record has that id
HasRetainedParent(rows, i) ==
  /\ rows[i].parent_id # ""
  /\ \E j \in 1..Len(rows) : rows[j].node_id = rows[i].parent_id

\* C5: in the map main builds, every retained record with a non-empty
\* parent_id that is the node_id of a retained record has exactly one
\* connection from the parent to itself, whatever its group (in the
\* fallback colour for a group without a colour), and no other record has
\* one.
C5_EveryChildOfARetainedParentHasItsLine ==
  MapBuilt =>
    /\ Len(Lines) = Cardinality({i \in 1..Len(df) : HasRetainedParent(df, i)})
    /\ \A i \in 1..Len(df) :
         HasRetainedParent(df, i) =>
           \E k \in 1..Len(Lines) :
             /\ Lines[k].locations[2] = LatLon(df[i])
             /\ \E j \in 1..Len(df) :
                  /\ df[j].node_id = df[i].parent_id
                  /\ Lines[k].locations[1] = LatLon(df[j])
             /\ Lines[k].color =
                  IF df[i].group \in KnownGroups
                  THEN group_color_map[df[i].group] ELSE FallbackColor

\* the last record with the id
LastWithId(rows, id) ==
  CHOOSE j \in 1..Len(rows) :
    /\ rows[j].node_id = id
    /\ \A k \in (j + 1)..Len(rows) : rows[k].node_id # id

Indexes(rows) == [i \in 1..Len(rows) |-> i]

DrawnByMap(i) == df[i].group \in KnownGroups /\ HasRetainedParent(df, i)

DrawnByLines(i) == HasRetainedParent(df, i)

\* the connections are those of the records idx, each from the last record
\* with the parent's id
FromLastDuplicate(lines, idx) ==
  /\ Len(lines) = Len(idx)
  /\ \A k \in 1..Len(idx) :
       lines[k].locations =
         <<LatLon(df[LastWithId(df, df[idx[k]].parent_id)]), LatLon(df[idx[k]])>>

\* C9: the lookup holds, for every non-empty id, the coordinates of the last
\* retained record with that id, so every connection starts there, also
\* for a child before that record; the empty id is no key of the lookup.
C9_LastDuplicateWins ==
  MapBuilt =>
    /\ DOMAIN coords = {df[j].node_id : j \in 1..Len(df)} \ {""}
    /\ \A id \in DOMAIN coords : coords[id] = LatLon(df[LastWithId(df, id)])
    /\ FromLastDuplicate(Lines, SelectSeq(Indexes(df), DrawnByMap))
    /\ FromLastDuplicate(add_parent_child_lines(df),
                         SelectSeq(Indexes(df), DrawnByLines))

\* a child comes first, then two records with its parent's id at different
\* places, and the connection starts at the second of them
C9_Witness ==
  /\ MapBuilt
  /\ Len(df) = 3
  /\ df[1].parent_id = "A"
  /\ df[2].node_id = "A"
  /\ df[3].node_id = "A"
  /\ LatLon(df[2]) # LatLon(df[3])
  /\ Len(Lines) = 1
  /\ Lines[1].locations = <<LatLon(df[3]), LatLon(df[1])>>

====
